---- MODULE Spec2Model ----
(***************************************************************************)
(* Model of the Spanish OCR service (src/app.py): the POST /ocr handler,   *)
(* the lazily filled engine registry ocr_engines, process_image and the    *)
(* asyncio event loop that runs the handlers of concurrent requests.       *)
(*                                                                         *)
(* A request lives in a slot.  The handler is a coroutine: it yields the   *)
(* event loop only at `await file.read()` (line 84); everything after it   *)
(* is synchronous code, so the loop runs one request at a time from the    *)
(* resumption to the response.  The steps of the synchronous part are kept *)
(* as separate actions so that this exclusion is something the checks can  *)
(* refute rather than something the action granularity assumes.            *)
(***************************************************************************)
EXTENDS Integers, Sequences, FiniteSets, TLC

VARIABLES
  req,          \* slot -> the request in that slot (locals of ocr_endpoint / process_image)
  ocr_engines,  \* the module-level dict ocr_engines: model_type -> engine instance
  ctor_log,     \* history: model_type -> outcomes of the RapidOCR(...) calls made for it
  running       \* the slot whose handler holds the event loop, 0 when the loop is free

vars == <<req, ocr_engines, ctor_log, running>>

----------------------------------------------------------------------------
(* Bounds of the model *)

NumRequests == 2        \* request slots that can be in flight at once
MaxPages == 2           \* pages a rasterized PDF can have
MaxCtorFailures == 1    \* RapidOCR(...) calls per variant that may raise

(* Configuration, lines 11-16 *)

MAX_FILE_SIZE_MB == 10
MAX_FILE_SIZE_BYTES == MAX_FILE_SIZE_MB * 1024 * 1024
TEXT_SCORE_THRESHOLD == "0.5"

Slots == 1 .. NumRequests

----------------------------------------------------------------------------
(* Pure helpers *)

Min(a, b) == IF a < b THEN a ELSE b

Last(s) == s[Len(s)]

\* str.join: sep.join(s)
RECURSIVE Join(_, _)
Join(s, sep) ==
  IF s = <<>> THEN ""
  ELSE IF Len(s) = 1 THEN s[1]
  ELSE s[1] \o sep \o Join(Tail(s), sep)

\* str.lower on one character (the characters the file names of the model use)
LowerChar(c) ==
  CASE c = "P" -> "p"
    [] c = "D" -> "d"
    [] c = "F" -> "f"
    [] c = "N" -> "n"
    [] c = "G" -> "g"
    [] OTHER -> c

\* str.lower
Lower(name) == [i \in 1 .. Len(name) |-> LowerChar(name[i])]

\* str.split(sep): the parts between the separators, always at least one part
RECURSIVE SplitFrom(_, _, _, _)
SplitFrom(s, sep, i, cur) ==
  IF i > Len(s) THEN <<cur>>
  ELSE IF s[i] = sep THEN <<cur>> \o SplitFrom(s, sep, i + 1, <<>>)
  ELSE SplitFrom(s, sep, i + 1, Append(cur, s[i]))

Split(s, sep) == SplitFrom(s, sep, 1, <<>>)

----------------------------------------------------------------------------
(* Values *)

Variants == {"mobile", "server"}

NoParam == "<absent>"

\* UploadFile.filename: None, or a string (a sequence of characters)
NoFilename == [some |-> FALSE, name |-> <<>>]
Named(n) == [some |-> TRUE, name |-> n]

PDF_MAGIC == <<"%", "P", "D", "F">>
PdfExt == <<"p", "d", "f">>

NoEngine == [id |-> 0, params |-> <<>>]
NoOutput == [shape |-> "none", none |-> TRUE, strs |-> <<>>]

\* An engine result that is a RapidOCROutput object: txts is None or a tuple of strings
TxtsOutput(none, strs) == [shape |-> "txts", none |-> none, strs |-> strs]
\* An engine result that is a plain list of (box, text, score) tuples
TuplesOutput(strs) == [shape |-> "tuples", none |-> FALSE, strs |-> strs]

IdleSlot ==
  [pc |-> "idle", model_type |-> "", size |-> 0, lead |-> <<>>,
   filename |-> NoFilename, file_extension |-> <<>>, branch |-> "",
   images |-> 0, page_num |-> 0, all_text |-> <<>>, text |-> "",
   ocr_output |-> NoOutput, engine |-> NoEngine,
   status |-> 0, body |-> <<>>,
   exc |-> "", work |-> {}, calls |-> <<>>, page_texts |-> <<>>,
   ctor_tries |-> 0]

----------------------------------------------------------------------------
(* Inputs the environment can send or the collaborators can return *)

\* model_type query values a client can send (NoParam: the parameter is left out)
Queries == {NoParam, "mobile", "server", "tablet"}

ModelTypeValues == (Queries \ {NoParam})

\* Uploaded payloads: the length and the leading bytes
SmallPdf == [size |-> 5, lead |-> <<"%", "P", "D", "F", "-">>]
ShortFile == [size |-> 3, lead |-> <<"%", "P", "D">>]
SmallImage == [size |-> 5, lead |-> <<"x", "%", "P", "D", "F">>]
LargestPdf == [size |-> MAX_FILE_SIZE_BYTES, lead |-> <<"%", "P", "D", "F", "-">>]
OversizedPdf == [size |-> MAX_FILE_SIZE_BYTES + 1, lead |-> <<"%", "P", "D", "F", "-">>]
OversizedImage == [size |-> MAX_FILE_SIZE_BYTES + 1, lead |-> <<"x", "%", "P", "D", "F">>]

\* Upload names
NamePng == Named(<<"a", ".", "p", "n", "g">>)
NamePdf == Named(<<"a", ".", "p", "d", "f">>)
NameUpperPdf == Named(<<"a", ".", "P", "D", "F">>)
NamePdfPng == Named(<<"a", ".", "p", "d", "f", ".", "p", "n", "g">>)
NamePngPdf == Named(<<"a", ".", "p", "n", "g", ".", "P", "d", "f">>)
NameNoDot == Named(<<"p", "d", "f">>)
NameDotOnly == Named(<<".", "p", "d", "f">>)
NameTrailingDot == Named(<<"p", "d", "f", ".">>)
NameEmpty == Named(<<>>)

\* The inputs of the concurrent specification: one of each kind that takes
\* a different path through the handler
ConcurrentInputs ==
  [queries |-> Queries,
   payloads |-> {SmallPdf, ShortFile, OversizedPdf},
   filenames |-> {NoFilename},
   outputs |-> {TxtsOutput(TRUE, <<>>), TxtsOutput(FALSE, <<"a">>)}]

\* The inputs of the one-request-at-a-time specification
AllInputs ==
  [queries |-> Queries,
   payloads |-> {SmallPdf, ShortFile, SmallImage, LargestPdf, OversizedPdf,
                 OversizedImage},
   filenames |-> {NoFilename, NameEmpty, NamePng, NamePdf, NameUpperPdf,
                  NamePdfPng, NamePngPdf, NameNoDot, NameDotOnly,
                  NameTrailingDot},
   outputs |-> {TxtsOutput(TRUE, <<>>), TxtsOutput(FALSE, <<>>),
                TxtsOutput(FALSE, <<"a">>), TxtsOutput(FALSE, <<"b", "c">>),
                TuplesOutput(<<>>), TuplesOutput(<<"a">>)}]

\* Messages of the exceptions the collaborators raise
PdfError == "Unable to get page count."
ImageError == "cannot identify image file"
CtorError == "model file not found"
EngineError == "inference failed"

----------------------------------------------------------------------------
(* The event loop *)

\* Mutant: the handler runs in a thread pool (a plain `def` endpoint), so a
\* request starts or resumes whatever the others are doing
MayResumeThreaded(r) == TRUE

\* Mutant: the engine call is awaited in an executor, so the loop is free
\* while a recognition call runs
MayResumeDuringCall(r) ==
  IF running = 0 THEN TRUE ELSE req[running].pc = "in_engine"

\* A coroutine is started or resumed only when no handler is running its
\* synchronous part: the handler is `async def` and blocks the loop after
\* `await file.read()`
MayResume(r) == running = 0

----------------------------------------------------------------------------
(* Request validation *)

\* Query("mobile", ...): the default when the parameter is absent
ModelTypeParam(q) == IF q = NoParam THEN "mobile" ELSE q

\* Mutant: the query parameter carries no pattern
AnyModelType(mt) == TRUE

\* regex="^(mobile|server)$"
ValidModelType(mt) == mt \in {"mobile", "server"}

\* Mutant: >= in place of >
TooLargeInclusive(size) == size >= MAX_FILE_SIZE_BYTES

\* len(contents) > MAX_FILE_SIZE_BYTES
TooLarge(size) == size > MAX_FILE_SIZE_BYTES

----------------------------------------------------------------------------
(* Classification, lines 93-100 *)

\* Mutant: the name is not lowercased
FileExtensionCaseSensitive(fn) ==
  IF fn.some /\ fn.name # <<>>
  THEN LET parts == Split(fn.name, ".")
       IN IF Len(parts) > 1 THEN Last(parts) ELSE <<>>
  ELSE <<>>

\* file_extension: "" unless the name is truthy and has a "."; then the
\* lowercased text after the last "."
FileExtension(fn) ==
  IF fn.some /\ fn.name # <<>>
  THEN LET parts == Split(Lower(fn.name), ".")
       IN IF Len(parts) > 1 THEN Last(parts) ELSE <<>>
  ELSE <<>>

\* contents[:4]
FirstFour(lead) == SubSeq(lead, 1, Min(4, Len(lead)))

\* contents[:4] == b'%PDF' or file_extension == "pdf"
IsPdf(lead, ext) == FirstFour(lead) = PDF_MAGIC \/ ext = PdfExt

----------------------------------------------------------------------------
(* Engine registry, get_ocr_engine *)

\* model_type not in ocr_engines, negated
Cached(reg, mt) == mt \in DOMAIN reg

\* ModelType.SERVER if model_type == "server" else ModelType.MOBILE
ModelEnum(mt) == IF mt = "server" THEN "SERVER" ELSE "MOBILE"

\* The params dict handed to RapidOCR(...)
EngineParams(mt) ==
  ("Det.model_type" :> ModelEnum(mt)) @@
  ("Det.ocr_version" :> "PPOCRV5") @@
  ("Rec.lang_type" :> "LATIN") @@
  ("Rec.model_type" :> ModelEnum(mt)) @@
  ("Rec.ocr_version" :> "PPOCRV5")

\* Instances built so far, over all keys
RECURSIVE CountBuilt(_)
CountBuilt(log) ==
  IF log = <<>> THEN 0
  ELSE (IF log[1] > 0 THEN 1 ELSE 0) + CountBuilt(Tail(log))

RECURSIVE SumBuilt(_, _)
SumBuilt(log, keys) ==
  IF keys = {} THEN 0
  ELSE LET k == CHOOSE x \in keys : TRUE
       IN CountBuilt(log[k]) + SumBuilt(log, keys \ {k})

CountRaised(log) == Len(log) - CountBuilt(log)

\* A fresh instance: RapidOCR(params={...}); its id tells instances apart
NewEngine(mt, log) ==
  [id |-> SumBuilt(log, DOMAIN log) + 1, params |-> EngineParams(mt)]

\* ocr_engines[model_type] = <instance>
Store(reg, mt, e) ==
  [k \in DOMAIN reg \cup {mt} |-> IF k = mt THEN e ELSE reg[k]]

\* Mutant: the key is entered before the constructor runs and stays behind
\* when it raises
StoreBroken(reg, mt) == Store(reg, mt, NoEngine)

\* RapidOCR(...) raised: the assignment of line 33 never happens
StoreNothing(reg, mt) == reg

----------------------------------------------------------------------------
(* process_image, lines 53-56 *)

\* hasattr(ocr_output, 'txts') and ocr_output.txts -> "\n".join(txts), else ""
ProcessText(out) ==
  IF out.shape = "txts" /\ ~out.none /\ out.strs # <<>>
  THEN Join(out.strs, "\n")
  ELSE ""

----------------------------------------------------------------------------
(* Responses *)

\* lines 111, 118-122: JSONResponse
Respond200(s, final_text) ==
  [s EXCEPT !.pc = "responded", !.status = 200,
            !.text = "", !.ocr_output = NoOutput,
            !.body = [text |-> final_text, model_type |-> s.model_type,
                      file_name |-> s.filename]]

\* Mutant: the handler answers with what was recognized so far
HandlePartial(s, msg) == Respond200(s, Join(s.all_text, "\n\n"))

\* lines 124-128: except Exception as e -> HTTPException(500)
HandleException(s, msg) ==
  [s EXCEPT !.pc = "responded", !.status = 500,
            !.body = [detail |-> "Error processing file: " \o msg]]

\* An exception with message msg leaves the try block
Raise(s, msg) == HandleException([s EXCEPT !.exc = msg], msg)

\* lines 86-89
Respond413(s) ==
  [s EXCEPT !.pc = "responded", !.status = 413,
            !.body = [detail |-> "File too large. Maximum size is 10MB"]]

\* The framework's answer to a query value the pattern rejects
Respond422(s) ==
  [s EXCEPT !.pc = "responded", !.status = 422,
            !.body = [detail |-> "string does not match pattern"]]

\* Mutant: every page text is appended, empty or not
AppendAlways(all_text, text) == Append(all_text, text)

\* if text: all_text.append(text)
AppendIfText(all_text, text) ==
  IF text # "" THEN Append(all_text, text) ELSE all_text

\* The loop head of line 106, and line 111 once the pages are exhausted
NextPage(s) ==
  IF s.page_num <= s.images
  THEN [s EXCEPT !.pc = "get_engine"]
  ELSE Respond200(s, Join(s.all_text, "\n\n"))

----------------------------------------------------------------------------
(* Actions *)

Init ==
  /\ req = [r \in Slots |-> IdleSlot]
  /\ ocr_engines = <<>>
  /\ ctor_log = [k \in ModelTypeValues |-> <<>>]
  /\ running = 0

\* A request arrives with its upload; the framework resolves and validates
\* model_type (line 71) and either answers 422 or enters the handler, which
\* runs up to the await of line 84
Receive(r, E) ==
  /\ req[r].pc = "idle"
  /\ MayResume(r)
  /\ \E q \in E.queries, p \in E.payloads, fn \in E.filenames :
       LET mt == ModelTypeParam(q)
           s == [req[r] EXCEPT !.model_type = mt, !.size = p.size,
                               !.lead = p.lead, !.filename = fn]
       IN IF ValidModelType(mt)
          THEN /\ req' = [req EXCEPT ![r] = [s EXCEPT !.pc = "reading"]]
               /\ UNCHANGED running
          ELSE /\ req' = [req EXCEPT ![r] = Respond422(s)]
               /\ running' = r
  /\ UNCHANGED <<ocr_engines, ctor_log>>

\* contents = await file.read(), then the size check
ReadContents(r) ==
  /\ req[r].pc = "reading"
  /\ MayResume(r)
  /\ running' = r
  /\ req' = [req EXCEPT ![r] =
       IF TooLarge(req[r].size) THEN Respond413(req[r])
       ELSE [req[r] EXCEPT !.pc = "classify"]]
  /\ UNCHANGED <<ocr_engines, ctor_log>>

\* lines 93-100
Classify(r) ==
  /\ req[r].pc = "classify"
  /\ LET ext == FileExtension(req[r].filename)
         pdf == IsPdf(req[r].lead, ext)
     IN req' = [req EXCEPT ![r] =
          [req[r] EXCEPT !.file_extension = ext,
                         !.branch = IF pdf THEN "PDF" ELSE "IMAGE",
                         !.pc = IF pdf THEN "pdf_convert" ELSE "img_open",
                         !.work = @ \cup {"classify"}]]
  /\ UNCHANGED <<ocr_engines, ctor_log, running>>

\* images = convert_from_bytes(contents): raises, or yields the pages
ConvertPdf(r) ==
  /\ req[r].pc = "pdf_convert"
  /\ LET s == [req[r] EXCEPT !.work = @ \cup {"rasterize"}]
     IN \/ req' = [req EXCEPT ![r] = Raise(s, PdfError)]
        \/ \E n \in 0 .. MaxPages :
             req' = [req EXCEPT ![r] =
               NextPage([s EXCEPT !.images = n, !.page_num = 1])]
  /\ UNCHANGED <<ocr_engines, ctor_log, running>>

\* image = Image.open(io.BytesIO(contents)): raises, or yields one image
OpenImage(r) ==
  /\ req[r].pc = "img_open"
  /\ LET s == [req[r] EXCEPT !.work = @ \cup {"decode"}]
     IN \/ req' = [req EXCEPT ![r] = Raise(s, ImageError)]
        \/ req' = [req EXCEPT ![r] =
             [s EXCEPT !.images = 1, !.page_num = 1, !.pc = "get_engine"]]
  /\ UNCHANGED <<ocr_engines, ctor_log, running>>

\* The engine call of line 50 begins on instance e
BeginCall(s, e) ==
  [s EXCEPT !.engine = e, !.pc = "in_engine",
            !.calls = Append(@, s.page_num),
            !.work = @ \cup {"invoke"}]

\* process_image -> get_ocr_engine: the lookup of line 29; on a hit the
\* stored instance is returned and called
GetEngine(r) ==
  /\ req[r].pc = "get_engine"
  /\ req' = [req EXCEPT ![r] =
       IF Cached(ocr_engines, req[r].model_type)
       THEN BeginCall(req[r], ocr_engines[req[r].model_type])
       ELSE [req[r] EXCEPT !.pc = "construct"]]
  /\ UNCHANGED <<ocr_engines, ctor_log, running>>

\* lines 30-43: RapidOCR(...) raises, or the instance is stored, returned
\* and called
Construct(r) ==
  /\ req[r].pc = "construct"
  /\ LET mt == req[r].model_type
         s == [req[r] EXCEPT !.work = @ \cup {"construct"}, !.ctor_tries = @ + 1]
     IN \/ /\ CountRaised(ctor_log[mt]) < MaxCtorFailures
           /\ ocr_engines' = StoreNothing(ocr_engines, mt)
           /\ ctor_log' = [ctor_log EXCEPT ![mt] = Append(@, 0)]
           /\ req' = [req EXCEPT ![r] = Raise(s, CtorError)]
        \/ LET e == NewEngine(mt, ctor_log)
           IN /\ ocr_engines' = Store(ocr_engines, mt, e)
              /\ ctor_log' = [ctor_log EXCEPT ![mt] = Append(@, e.id)]
              /\ req' = [req EXCEPT ![r] =
                   BeginCall([s EXCEPT !.work = @ \cup {"store"}], ocr_engines'[mt])]
  /\ UNCHANGED running

\* engine(image) ends: it raises, or process_image turns its result into text
EngineReturn(r, E) ==
  /\ req[r].pc = "in_engine"
  /\ \/ req' = [req EXCEPT ![r] = Raise(req[r], EngineError)]
     \/ \E out \in E.outputs :
          req' = [req EXCEPT ![r] =
            [req[r] EXCEPT !.ocr_output = out, !.text = ProcessText(out),
                           !.page_texts = Append(@, ProcessText(out)),
                           !.pc = "returned"]]
  /\ UNCHANGED <<ocr_engines, ctor_log, running>>

\* Back in ocr_endpoint: lines 108-109 and the next page, or line 116
AfterProcessImage(r) ==
  /\ req[r].pc = "returned"
  /\ req' = [req EXCEPT ![r] =
       IF req[r].branch = "PDF"
       THEN NextPage([req[r] EXCEPT
              !.all_text = AppendIfText(@, req[r].text),
              !.page_num = @ + 1, !.text = "", !.ocr_output = NoOutput])
       ELSE Respond200(req[r], req[r].text)]
  /\ UNCHANGED <<ocr_engines, ctor_log, running>>

\* The response is sent and the handler's coroutine ends
Release(r) ==
  /\ req[r].pc = "responded"
  /\ req' = [req EXCEPT ![r] = IdleSlot]
  /\ running' = 0
  /\ UNCHANGED <<ocr_engines, ctor_log>>

\* One step of the request in slot r
Step(r, E) ==
  \/ Receive(r, E)
  \/ ReadContents(r)
  \/ Classify(r)
  \/ ConvertPdf(r)
  \/ OpenImage(r)
  \/ GetEngine(r)
  \/ Construct(r)
  \/ EngineReturn(r, E)
  \/ AfterProcessImage(r)
  \/ Release(r)

\* Requests in flight at the same time
Next == \E r \in Slots : Step(r, ConcurrentInputs)

Spec == Init /\ [][Next]_vars

\* One request after another, over all the inputs
NextOne == Step(1, AllInputs)

SpecOne == Init /\ [][NextOne]_vars

----------------------------------------------------------------------------
(* Properties *)

Responded(r) == req[r].pc = "responded"

InFlight(r) == req[r].pc # "idle"

\* The entries of a constructor log that are instances
BuiltIds(log) == {log[i] : i \in {j \in 1 .. Len(log) : log[j] > 0}}

\* C1, as stated: for each variant the constructor RapidOCR(...) is invoked
\* exactly once over the process lifetime (never a second time).
C1_ConstructorInvokedOnce ==
  \A v \in Variants : Len(ctor_log[v]) <= 1

\* C1, amended: for each variant the constructor returns an instance at most
\* once and is never invoked again once an instance is stored (only an
\* invocation that raised can be followed by another); the registry holds
\* exactly that instance, and every request for the variant that reaches
\* recognition, concurrent or later, uses it.
C1_OneInstancePerVariant ==
  \A v \in Variants :
    /\ Cardinality(BuiltIds(ctor_log[v])) <= 1
    /\ CountBuilt(ctor_log[v]) <= 1
    /\ \A i \in 1 .. Len(ctor_log[v]) : ctor_log[v][i] > 0 => i = Len(ctor_log[v])
    /\ Cached(ocr_engines, v) <=> CountBuilt(ctor_log[v]) = 1
    /\ Cached(ocr_engines, v) => BuiltIds(ctor_log[v]) = {ocr_engines[v].id}
    /\ \A r \in Slots :
         (req[r].model_type = v /\ req[r].engine # NoEngine)
           => /\ Cached(ocr_engines, v)
              /\ req[r].engine = ocr_engines[v]

\* C1 witness: two requests for the same variant are in flight at once, both
\* received while no engine for it existed; one has built the engine and is
\* recognizing with it while the other still waits to resume.
C1_Witness ==
  \E r1, r2 \in Slots :
    /\ r1 # r2
    /\ req[r1].model_type = req[r2].model_type
    /\ req[r1].pc = "in_engine" /\ req[r1].ctor_tries = 1
    /\ req[r2].pc = "reading"
    /\ Len(ctor_log[req[r1].model_type]) = 1

\* C2, state part: a request with a valid model_type whose payload is longer
\* than MAX_FILE_SIZE_MB * 1024 * 1024 bytes never gets past the size check, did
\* no classification, rasterization, decode, construction, registry store or
\* engine call, and ends with 413; a payload of at most the maximum length
\* (exactly the maximum included) is never answered 413.
C2_OversizeState ==
  \A r \in Slots :
    /\ (InFlight(r) /\ req[r].model_type \in Variants
          /\ req[r].size > MAX_FILE_SIZE_MB * 1024 * 1024)
         => /\ req[r].pc \in {"reading", "responded"}
            /\ req[r].work = {}
            /\ req[r].calls = <<>>
            /\ req[r].engine = NoEngine
            /\ req[r].ctor_tries = 0
            /\ Responded(r) => req[r].status = 413
    /\ (Responded(r) /\ req[r].size <= MAX_FILE_SIZE_MB * 1024 * 1024)
         => req[r].status # 413

\* C2, step part: no step taken between the receipt of such a request and the
\* end of its response changes the engine registry.
C2_OversizeStep ==
  \A r \in Slots :
    (InFlight(r) /\ req[r].model_type \in Variants
       /\ req[r].size > MAX_FILE_SIZE_MB * 1024 * 1024)
      => ocr_engines' = ocr_engines

\* C2: an oversized request with a valid model_type is answered 413 with no
\* classification, rasterization, decode, construction or engine call and the
\* registry unchanged between receipt and response; a payload of exactly the
\* maximum length is not answered 413.
C2_OversizeRejected == [](C2_OversizeState) /\ [][C2_OversizeStep]_vars

\* C2 witness: an oversized upload was answered 413 while an engine was
\* already in the registry.
C2_Witness ==
  \E r \in Slots :
    /\ Responded(r) /\ req[r].status = 413
    /\ req[r].size = MAX_FILE_SIZE_MB * 1024 * 1024 + 1
    /\ Cached(ocr_engines, req[r].model_type)

\* C3: a request whose model_type is neither "mobile" nor "server" is answered
\* 422 on arrival, whatever its payload size, having done no classification,
\* decode, construction or engine call; the registry never holds a key other
\* than "mobile" and "server".
C3_BadModelTypeRejected ==
  /\ \A r \in Slots :
       (InFlight(r) /\ req[r].model_type \notin {"mobile", "server"})
         => /\ Responded(r)
            /\ req[r].status = 422
            /\ req[r].work = {}
            /\ req[r].calls = <<>>
            /\ req[r].engine = NoEngine
            /\ req[r].ctor_tries = 0
  /\ DOMAIN ocr_engines \subseteq {"mobile", "server"}
  /\ \A k \in ModelTypeValues \ {"mobile", "server"} : ctor_log[k] = <<>>

\* C3 witness: an oversized upload with an invalid model_type was answered
\* 422, not 413.
C3_Witness ==
  \E r \in Slots :
    /\ Responded(r) /\ req[r].status = 422
    /\ req[r].model_type = "tablet"
    /\ req[r].size > MAX_FILE_SIZE_MB * 1024 * 1024

\* The payload starts with the four bytes %PDF
StartsWithPdfMagic(lead) ==
  /\ Len(lead) >= 4
  /\ lead[1] = "%" /\ lead[2] = "P" /\ lead[3] = "D" /\ lead[4] = "F"

\* A name is present, has a ".", and its text after the last "." is "pdf"
\* in any letter case
EndsInDotPdf(fn) ==
  /\ fn.some
  /\ \E i \in 1 .. Len(fn.name) :
       /\ fn.name[i] = "."
       /\ \A j \in (i + 1) .. Len(fn.name) : fn.name[j] # "."
       /\ Len(fn.name) = i + 3
       /\ fn.name[i + 1] \in {"p", "P"}
       /\ fn.name[i + 2] \in {"d", "D"}
       /\ fn.name[i + 3] \in {"f", "F"}

\* C4: a classified request took the PDF branch exactly when its payload
\* starts with %PDF or its file name ends in ".pdf" (any case, after the last
\* "."); otherwise the IMAGE branch; classification never raises.
C4_Classification ==
  \A r \in Slots :
    /\ "classify" \in req[r].work
         => /\ req[r].branch \in {"PDF", "IMAGE"}
            /\ req[r].branch = "PDF"
                 <=> (StartsWithPdfMagic(req[r].lead) \/ EndsInDotPdf(req[r].filename))
            /\ req[r].branch = "PDF" => "decode" \notin req[r].work
            /\ req[r].branch = "IMAGE" => "rasterize" \notin req[r].work
            /\ req[r].pc \in {"pdf_convert", "img_open"} => req[r].exc = ""
    /\ (Responded(r) /\ req[r].status \in {200, 500})
         => /\ "classify" \in req[r].work
            /\ req[r].work # {"classify"}

\* C4 witness: a payload starting with %PDF and named a.png was rasterized as
\* a PDF.
C4_Witness ==
  \E r \in Slots :
    /\ req[r].branch = "PDF" /\ "rasterize" \in req[r].work
    /\ req[r].filename = NamePng
    /\ StartsWithPdfMagic(req[r].lead)

\* The page texts that are not empty, in page order
NonEmptyTexts(texts) == SelectSeq(texts, LAMBDA t : t # "")

\* C5: in a PDF request recognition is called once per page in the order
\* 1..n on the engine of the request's model_type; a request that ends 200
\* called it for every page and its text is the non-empty page texts in page
\* order joined by "\n\n" ("" when no page has text).
C5_PdfJoin ==
  \A r \in Slots :
    req[r].branch = "PDF"
      => /\ req[r].calls = [i \in 1 .. Len(req[r].calls) |-> i]
         /\ Len(req[r].calls) <= req[r].images
         /\ req[r].engine # NoEngine
              => /\ Cached(ocr_engines, req[r].model_type)
                 /\ req[r].engine = ocr_engines[req[r].model_type]
         /\ (Responded(r) /\ req[r].status = 200)
              => /\ Len(req[r].calls) = req[r].images
                 /\ Len(req[r].page_texts) = req[r].images
                 /\ req[r].body.text
                      = Join(NonEmptyTexts(req[r].page_texts), "\n\n")

\* C5 witness: a PDF with an empty page followed by a page with text was
\* answered 200.
C5_Witness ==
  \E r \in Slots :
    /\ Responded(r) /\ req[r].status = 200 /\ req[r].branch = "PDF"
    /\ req[r].images = 2
    /\ req[r].page_texts[1] = "" /\ req[r].page_texts[2] # ""

\* C6: a request that passed validation and in which rasterization, decode,
\* construction or the engine call raised ends with 500 and the body
\* {"detail": "Error processing file: <message>"}: no text field, nothing of
\* the pages already recognized, no 200, and the failed step was not retried.
C6_FailureIs500 ==
  \A r \in Slots :
    /\ req[r].exc # ""
         => /\ Responded(r)
            /\ req[r].status = 500
            /\ req[r].body = [detail |-> "Error processing file: " \o req[r].exc]
            /\ "text" \notin DOMAIN req[r].body
            /\ req[r].ctor_tries <= 1
            /\ Len(req[r].calls) <= Len(req[r].page_texts) + 1
    /\ (Responded(r) /\ req[r].status = 200)
         => /\ req[r].exc = ""
            /\ Len(req[r].page_texts) = Len(req[r].calls)

\* C6 witness: the engine raised on page 2 of a PDF whose page 1 had been
\* recognized with text.
C6_Witness ==
  \E r \in Slots :
    /\ Responded(r) /\ req[r].exc = EngineError
    /\ req[r].branch = "PDF"
    /\ req[r].calls = <<1, 2>>
    /\ req[r].all_text # <<>>

\* C7, as stated: for both result shapes process_image returns the
\* recognized strings in order joined by "\n", and "" exactly when there are
\* none.
C7_BothShapesJoined ==
  \A r \in Slots :
    req[r].pc = "returned"
      => /\ req[r].text = Join(req[r].ocr_output.strs, "\n")
         /\ req[r].text = "" <=> req[r].ocr_output.strs = <<>>

\* C9, as stated: every stored engine was constructed with its variant's size
\* class for detection and recognition, Latin recognition, the fixed model
\* generation and text_score equal to TEXT_SCORE_THRESHOLD.
C9_EngineConfiguration ==
  \A v \in DOMAIN ocr_engines :
    LET params == ocr_engines[v].params
        size_class == IF v = "server" THEN "SERVER" ELSE "MOBILE"
    IN /\ params["Det.model_type"] = size_class
       /\ params["Rec.model_type"] = size_class
       /\ params["Rec.lang_type"] = "LATIN"
       /\ params["Det.ocr_version"] = "PPOCRV5"
       /\ params["Rec.ocr_version"] = "PPOCRV5"
       /\ "text_score" \in DOMAIN params
       /\ params["text_score"] = TEXT_SCORE_THRESHOLD

\* C10, state part: a request makes at most one construction attempt; one
\* whose attempt raised ends with 500 and leaves no registry entry for its
\* variant.
C10_FailedState ==
  \A r \in Slots :
    /\ req[r].ctor_tries <= 1
    /\ req[r].exc = CtorError
         => /\ Responded(r) /\ req[r].status = 500
            /\ req[r].ctor_tries = 1
            /\ req[r].engine = NoEngine
            /\ ~Cached(ocr_engines, req[r].model_type)

\* C10, step part: the step in which construction raises leaves the registry
\* as it was; and while no instance was ever built for a variant, failed
\* attempts or not, a request that looks it up goes on to construct.
C10_FailedStep ==
  \A r \in Slots :
    /\ (req[r].pc = "construct" /\ req'[r].exc = CtorError)
         => ocr_engines' = ocr_engines
    /\ (req[r].pc = "get_engine" /\ req'[r] # req[r]
          /\ CountBuilt(ctor_log[req[r].model_type]) = 0)
         => req'[r].pc = "construct"

\* C10: if construction for a variant raises, the registry is left exactly as
\* it was, the request attempts construction once and ends with 500, and a
\* later request for the variant attempts construction again.
C10_ConstructionFailure == [](C10_FailedState) /\ [][C10_FailedStep]_vars

\* C10 witness: construction for one variant raised in a multi-page
\* PDF request while the other variant's engine was in the registry.
C10_Witness ==
  \E r \in Slots :
    /\ Responded(r) /\ req[r].exc = CtorError
    /\ req[r].images >= 2
    /\ DOMAIN ocr_engines = Variants \ {req[r].model_type}

\* C8: no two requests are inside engine(image) on the same engine instance
\* at the same time.
C8_NoParallelRecognition ==
  \A r1, r2 \in Slots :
    (r1 # r2 /\ req[r1].pc = "in_engine" /\ req[r2].pc = "in_engine")
      => req[r1].engine.id # req[r2].engine.id

\* C8 witness: a recognition call is executing while another request for the
\* same, already built, variant is in flight and waits for the loop.
C8_Witness ==
  \E r1, r2 \in Slots :
    /\ r1 # r2
    /\ req[r1].pc = "in_engine" /\ req[r1].ctor_tries = 0
    /\ req[r2].pc = "reading"
    /\ req[r2].model_type = req[r1].model_type

====
